---- MODULE Spec2Model ----
(***************************************************************************)
(* Model of docs-template-update (docs-template-update.go).                *)
(*                                                                         *)
(* A document is a sequence of tokens.  A token is an atomic piece of text *)
(* chosen so that the two things the program does with text, matching the  *)
(* two placeholder patterns and splitting on the two section headers,      *)
(* never cut through a token: "{{", "fields", "event", "}}", the double    *)
(* quote, a name, a whitespace character, a whole header line, or a piece  *)
(* of ordinary text "x".                                                   *)
(***************************************************************************)
EXTENDS Integers, Sequences, FiniteSets, TLC

VARIABLES
    pc,             \* where the program (or the driver of one function) is
    built,          \* driver: pieces the input has been put together from
    content,        \* applyDataStreamPlaceholders: parameter content
    dataStreams,    \* dataStreams, parameter and local of processPackage
    result,         \* applyDataStreamPlaceholders: returned string
    readmeContent,  \* processPackage: readmeContent; generatePatch: original
    updatedContent, \* processPackage: updatedContent; generatePatch: updated
    patch,          \* processPackage: patch; what generatePatch returned
    args,           \* the flags on the command line
    env,            \* the environment variables that are set
    targetDir,      \* <pkgPath>/_dev/build/docs exists
    targetFile,     \* <pkgPath>/_dev/build/docs/readme.md: <<>> or <<its content>>
    sourceFile,     \* <pkgPath>/docs/README.md: <<>> or <<its content>>
    dataStreamDir,  \* <pkgPath>/data_stream: its state and its entries
    template,       \* processPackage: template
    generated,      \* what generateUpdatedReadme returned
    ret,            \* what processPackage returned: the patch and the error
    exitCode,       \* exit status of the program, -1 while it runs
    steps,          \* the steps of processPackage run so far, in order
    seeded          \* what the first step created: "dir", "file"

rewriteVars == <<content, result>>
runVars == <<args, env, targetDir, targetFile, sourceFile, dataStreamDir, template,
             generated, ret, exitCode, steps, seeded>>
vars == <<pc, built, dataStreams, readmeContent, updatedContent, patch, rewriteVars, runVars>>

\* The state outside a run of the program, for the drivers of one function
NoRun ==
    /\ args = {}
    /\ env = {}
    /\ targetDir = FALSE
    /\ targetFile = <<>>
    /\ sourceFile = <<>>
    /\ dataStreamDir = [state |-> "absent", entries |-> <<>>]
    /\ template = <<>>
    /\ generated = <<>>
    /\ ret = [patch |-> <<>>, err |-> ""]
    /\ exitCode = -1
    /\ steps = <<>>
    /\ seeded = {}

----------------------------------------------------------------------------
(* Bounds of the model *)

\* number of segments a generated document is made of
MaxSegs == 4
\* number of data stream directories
MaxStreams == 2

----------------------------------------------------------------------------
(* Text *)

NL == "\n"
SP == " "
TAB == "\t"
QUOTE == "\""
GenericName == "data_stream_name"
HeaderFields == "### ECS field Reference"
HeaderEvent == "### Sample Event"

\* \s of the two patterns
IsSpace(t) == t \in {SP, TAB, NL}

\* Directory names: two ordinary ones, the one that equals the generic name,
\* and one holding a '$'.
StreamNames == {"a", "b", GenericName, "$x"}

\* An identifier holds letters, digits and underscores only.
IsIdentifier(name) == name # "$x"

\* strings.Split(s, sep) for a one-token separator
RECURSIVE Split(_, _)
Split(s, sep) ==
    IF \A i \in 1..Len(s) : s[i] # sep
    THEN <<s>>
    ELSE LET i == CHOOSE k \in 1..Len(s) : s[k] = sep /\ \A j \in 1..(k-1) : s[j] # sep
         IN  <<SubSeq(s, 1, i-1)>> \o Split(SubSeq(s, i+1, Len(s)), sep)

\* One whitespace token at most: \s where the patterns have \s+.
SpaceRun_one(s, i) == IF i <= Len(s) /\ IsSpace(s[i]) THEN 1 ELSE 0

\* Number of whitespace tokens of s from position i on
RECURSIVE SpaceRun(_, _)
SpaceRun(s, i) == IF i <= Len(s) /\ IsSpace(s[i]) THEN 1 + SpaceRun(s, i+1) ELSE 0

\* Length of the match of \{\{<kind>\s+"data_stream_name"\}\} at position i
\* of s, 0 when it does not match there.
MatchAt(s, kind, i) ==
    LET k == SpaceRun(s, i+2)
    IN  IF /\ i + 1 <= Len(s)
           /\ s[i] = "{{"
           /\ s[i+1] = kind
           /\ k >= 1
           /\ i + 5 + k <= Len(s)
           /\ s[i+2+k] = QUOTE
           /\ s[i+3+k] = GenericName
           /\ s[i+4+k] = QUOTE
           /\ s[i+5+k] = "}}"
        THEN 6 + k
        ELSE 0

\* Regexp.expand on a name put into the replacement template: $name is the
\* text of the submatch called name, and the patterns have no submatches.
Expand(name) == IF name = "$x" THEN "" ELSE name

\* fmt.Sprintf(`{{<kind> "%s"}}`, name)
Placeholder(kind, name) == <<"{{", kind, SP, QUOTE, name, QUOTE, "}}">>

\* pattern.ReplaceAllString(s, fmt.Sprintf(`{{<kind> "%s"}}`, name)), from position i
RECURSIVE ReplaceFrom(_, _, _, _)
ReplaceFrom(s, kind, name, i) ==
    IF i > Len(s) THEN <<>>
    ELSE LET n == MatchAt(s, kind, i)
         IN  IF n > 0
             THEN Placeholder(kind, Expand(name)) \o ReplaceFrom(s, kind, name, i + n)
             ELSE <<s[i]>> \o ReplaceFrom(s, kind, name, i + 1)

ReplaceAllString(s, kind, name) == ReplaceFrom(s, kind, name, 1)

\* The event pattern alone, on the text as it came in.
ReplaceBoth_eventOnly(s, name) == ReplaceAllString(s, "event", name)

\* lines 144-148 and 160-164: the fields pattern, then the event pattern on
\* what the first replacement returned
ReplaceBoth(s, name) ==
    ReplaceAllString(ReplaceAllString(s, "fields", name), "event", name)

\* An empty document instead of the one handed in.
NoStreams_empty(s) == <<>>

\* lines 130-132
NoStreams(s) == s

\* lines 142-149
SingleStream(s, streams) == ReplaceBoth(s, streams[1])

\* The last data stream instead of the first.
Fallback_last(s, streams) == ReplaceBoth(s, streams[Len(streams)])

\* lines 156-164
Fallback(s, streams) == ReplaceBoth(s, streams[1])

\* lines 173-175 and 183-185: one sub-block per data stream
RECURSIVE SubBlocks(_, _)
SubBlocks(kind, streams) ==
    IF streams = <<>> THEN <<>>
    ELSE <<"#### ", Head(streams), NL, NL>>
         \o <<"{{", kind, SP, QUOTE, Head(streams), QUOTE, "}}">>
         \o <<NL, NL>> \o SubBlocks(kind, Tail(streams))

\* The event sub-blocks written with the fields placeholder.
EventPart_fieldsKind(rest, streams) ==
    LET eventSections == Split(rest, HeaderEvent)
    IN  IF Len(eventSections) = 2
        THEN <<HeaderEvent, NL, NL>> \o SubBlocks("fields", streams) \o eventSections[2]
        ELSE rest

\* The text before "### Sample Event" carried over in front of the header.
EventPart_keepMiddle(rest, streams) ==
    LET eventSections == Split(rest, HeaderEvent)
    IN  IF Len(eventSections) = 2
        THEN eventSections[1] \o <<HeaderEvent, NL, NL>>
             \o SubBlocks("event", streams) \o eventSections[2]
        ELSE rest

\* The rest rewritten for the first data stream when it is not cut in two.
EventPart_rewriteRest(rest, streams) ==
    LET eventSections == Split(rest, HeaderEvent)
    IN  IF Len(eventSections) = 2
        THEN <<HeaderEvent, NL, NL>> \o SubBlocks("event", streams) \o eventSections[2]
        ELSE ReplaceBoth(rest, streams[1])

\* lines 177-191
EventPart(rest, streams) ==
    LET eventSections == Split(rest, HeaderEvent)
    IN  IF Len(eventSections) = 2
        THEN <<HeaderEvent, NL, NL>> \o SubBlocks("event", streams) \o eventSections[2]
        ELSE rest

\* lines 152-155: the sections the document is cut into
Sections(s) ==
    LET first == Split(s, HeaderFields)
    IN  IF Len(first) # 2 THEN Split(s, HeaderEvent) ELSE first

\* lines 168-193
MultiStream(sections, streams) ==
    sections[1] \o <<HeaderFields, NL, NL>> \o SubBlocks("fields", streams)
    \o EventPart(sections[2], streams)

\* Without the case of one data stream: one stream is handled as several.
applyDataStreamPlaceholders_noSingle(s, streams) ==
    IF Len(streams) = 0 THEN NoStreams(s)
    ELSE LET sections == Sections(s)
         IN  IF Len(sections) # 2
             THEN Fallback(s, streams)
             ELSE MultiStream(sections, streams)

\* lines 129-194
applyDataStreamPlaceholders(s, streams) ==
    IF Len(streams) = 0 THEN NoStreams(s)
    ELSE IF Len(streams) = 1 THEN SingleStream(s, streams)
    ELSE LET sections == Sections(s)
         IN  IF Len(sections) # 2
             THEN Fallback(s, streams)
             ELSE MultiStream(sections, streams)

----------------------------------------------------------------------------
(* Driver of applyDataStreamPlaceholders: a document is put together from  *)
(* segments, then the function is applied to it and a list of data         *)
(* streams.                                                                *)

Segments ==
    { <<"x">>, <<HeaderFields>>, <<HeaderEvent>>,
      <<"{{", "fields", SP, QUOTE, GenericName, QUOTE, "}}">>,
      <<"{{", "event", SP, QUOTE, GenericName, QUOTE, "}}">>,
      <<"{{", "fields", SP, TAB, QUOTE, GenericName, QUOTE, "}}">>,
      <<"{{", SP, "event", SP, QUOTE, GenericName, QUOTE, SP, "}}">> }

\* Lists of distinct directory names, as a directory listing yields them
StreamLists ==
    { s \in UNION { [1..n -> StreamNames] : n \in 0..MaxStreams } :
        \A i, j \in 1..Len(s) : i # j => s[i] # s[j] }

InitRewrite ==
    /\ pc = "build"
    /\ built = 0
    /\ content = <<>>
    /\ dataStreams = <<>>
    /\ result = <<>>
    /\ readmeContent = <<>>
    /\ updatedContent = <<>>
    /\ patch = <<>>
    /\ NoRun

AddSegment ==
    /\ pc = "build"
    /\ built < MaxSegs
    /\ \E seg \in Segments : content' = content \o seg
    /\ built' = built + 1
    /\ UNCHANGED <<pc, dataStreams, result, readmeContent, updatedContent, patch, runVars>>

Rewrite ==
    /\ pc = "build"
    /\ \E streams \in StreamLists :
         /\ dataStreams' = streams
         /\ result' = applyDataStreamPlaceholders(content, streams)
    /\ pc' = "rewritten"
    /\ UNCHANGED <<built, content, readmeContent, updatedContent, patch, runVars>>

NextRewrite == AddSegment \/ Rewrite

SpecRewrite == InitRewrite /\ [][NextRewrite]_vars

----------------------------------------------------------------------------
(* generatePatch.  GetUnifiedDiffString is go-difflib's: its matcher, the  *)
(* grouping of the opcodes and the writer are modelled by what they do.    *)
(* Positions are counted from 0 as the library does; line i of a is        *)
(* a[i+1].  The matcher's junk heuristic needs 200 lines and more in b     *)
(* and is not part of the model.                                           *)

\* Context: 3
Context == 3

Max(x, y) == IF x >= y THEN x ELSE y
Min(x, y) == IF x <= y THEN x ELSE y

\* strings.Split(original, "\n")
Lines(doc) == Split(doc, NL)

\* filepath.Base of a path given by its elements
Base(filePath) == filePath[Len(filePath)]

\* SequenceMatcher.findLongestMatch: the longest block a[i:i+k] = b[j:j+k]
\* within a[alo:ahi] and b[blo:bhi]; of those the one that starts
\* earliest in a, and of those the one that starts earliest in b.
FindLongestMatch(a, b, alo, ahi, blo, bhi) ==
    LET blocks == { m \in (alo..(ahi-1)) \X (blo..(bhi-1)) \X (1..(ahi-alo)) :
                      /\ m[1] + m[3] <= ahi
                      /\ m[2] + m[3] <= bhi
                      /\ \A d \in 0..(m[3]-1) : a[m[1]+d+1] = b[m[2]+d+1] }
        Better(m, o) == \/ m[3] > o[3]
                        \/ m[3] = o[3] /\ m[1] < o[1]
                        \/ m[3] = o[3] /\ m[1] = o[1] /\ m[2] <= o[2]
    IN  IF blocks = {} THEN <<alo, blo, 0>>
        ELSE CHOOSE m \in blocks : \A o \in blocks : Better(m, o)

\* SequenceMatcher.GetMatchingBlocks: the longest match, then the same to
\* its left and to its right, in the order of their positions
RECURSIVE MatchingBlocksIn(_, _, _, _, _, _)
MatchingBlocksIn(a, b, alo, ahi, blo, bhi) ==
    LET m == FindLongestMatch(a, b, alo, ahi, blo, bhi)
        i == m[1]
        j == m[2]
        k == m[3]
    IN  IF k = 0 THEN <<>>
        ELSE (IF alo < i /\ blo < j THEN MatchingBlocksIn(a, b, alo, i, blo, j) ELSE <<>>)
             \o <<m>>
             \o (IF i + k < ahi /\ j + k < bhi
                 THEN MatchingBlocksIn(a, b, i + k, ahi, j + k, bhi) ELSE <<>>)

\* GetMatchingBlocks: adjacent blocks are joined into one
RECURSIVE Collapse(_, _)
Collapse(cur, blocks) ==
    IF blocks = <<>> THEN (IF cur[3] > 0 THEN <<cur>> ELSE <<>>)
    ELSE LET nb == Head(blocks)
         IN  IF cur[1] + cur[3] = nb[1] /\ cur[2] + cur[3] = nb[2]
             THEN Collapse(<<cur[1], cur[2], cur[3] + nb[3]>>, Tail(blocks))
             ELSE (IF cur[3] > 0 THEN <<cur>> ELSE <<>>) \o Collapse(nb, Tail(blocks))

GetMatchingBlocks(a, b) ==
    Collapse(<<0, 0, 0>>, MatchingBlocksIn(a, b, 0, Len(a), 0, Len(b)))
    \o <<<<Len(a), Len(b), 0>>>>

\* SequenceMatcher.GetOpCodes: how to turn a into b, from the matching blocks
RECURSIVE OpCodesFrom(_, _, _)
OpCodesFrom(blocks, i, j) ==
    IF blocks = <<>> THEN <<>>
    ELSE LET ai == Head(blocks)[1]
             bj == Head(blocks)[2]
             size == Head(blocks)[3]
             tag == IF i < ai /\ j < bj THEN "r"
                    ELSE IF i < ai THEN "d"
                    ELSE IF j < bj THEN "i"
                    ELSE ""
         IN  (IF tag # "" THEN <<[Tag |-> tag, I1 |-> i, I2 |-> ai, J1 |-> j, J2 |-> bj]>>
              ELSE <<>>)
             \o (IF size > 0
                 THEN <<[Tag |-> "e", I1 |-> ai, I2 |-> ai + size, J1 |-> bj, J2 |-> bj + size]>>
                 ELSE <<>>)
             \o OpCodesFrom(Tail(blocks), ai + size, bj + size)

GetOpCodes(a, b) == OpCodesFrom(GetMatchingBlocks(a, b), 0, 0)

\* GetGroupedOpCodes: the leading and the trailing unchanged range cut to n lines
TrimEnds(codes, n) ==
    LET f == codes[1]
        c1 == IF f.Tag = "e"
              THEN [codes EXCEPT ![1] = [Tag |-> "e", I1 |-> Max(f.I1, f.I2 - n), I2 |-> f.I2,
                                         J1 |-> Max(f.J1, f.J2 - n), J2 |-> f.J2]]
              ELSE codes
        l == c1[Len(c1)]
    IN  IF l.Tag = "e"
        THEN [c1 EXCEPT ![Len(c1)] = [Tag |-> "e", I1 |-> l.I1, I2 |-> Min(l.I2, l.I1 + n),
                                      J1 |-> l.J1, J2 |-> Min(l.J2, l.J1 + n)]]
        ELSE c1

\* GetGroupedOpCodes: the loop over the opcodes; group is the group being
\* filled.  An unchanged range of more than 2n lines ends it.
RECURSIVE GroupFrom(_, _, _)
GroupFrom(codes, group, n) ==
    IF codes = <<>>
    THEN (IF Len(group) > 0 /\ ~(Len(group) = 1 /\ group[1].Tag = "e")
          THEN <<group>> ELSE <<>>)
    ELSE LET c == Head(codes)
         IN  IF c.Tag = "e" /\ c.I2 - c.I1 > n + n
             THEN <<Append(group, [Tag |-> "e", I1 |-> c.I1, I2 |-> Min(c.I2, c.I1 + n),
                                   J1 |-> c.J1, J2 |-> Min(c.J2, c.J1 + n)])>>
                  \o GroupFrom(Tail(codes),
                               <<[Tag |-> "e", I1 |-> Max(c.I1, c.I2 - n), I2 |-> c.I2,
                                  J1 |-> Max(c.J1, c.J2 - n), J2 |-> c.J2]>>, n)
             ELSE GroupFrom(Tail(codes), Append(group, c), n)

\* Every group is kept, the one that is a single unchanged range too.
GetGroupedOpCodes_keepEqual(a, b, n) ==
    LET codes == GetOpCodes(a, b)
    IN  <<TrimEnds(IF codes = <<>> THEN <<[Tag |-> "e", I1 |-> 0, I2 |-> 1, J1 |-> 0, J2 |-> 1]>>
                   ELSE codes, n)>>

GetGroupedOpCodes(a, b, n) ==
    LET codes == GetOpCodes(a, b)
    IN  GroupFrom(TrimEnds(IF codes = <<>>
                           THEN <<[Tag |-> "e", I1 |-> 0, I2 |-> 1, J1 |-> 0, J2 |-> 1]>>
                           ELSE codes, n), <<>>, n)

\* formatRangeUnified
FormatRangeUnified(start, stop) ==
    LET length == stop - start
    IN  IF length = 1 THEN <<ToString(start + 1)>>
        ELSE IF length = 0 THEN <<ToString(start), ",", ToString(0)>>
        ELSE <<ToString(start + 1), ",", ToString(length)>>

\* WriteUnifiedDiff: the lines lines[from+1 .. to], each written as the
\* prefix and the line, with nothing after it
RECURSIVE WriteLines(_, _, _, _)
WriteLines(prefix, lines, from, to) ==
    IF from >= to THEN <<>>
    ELSE <<prefix>> \o lines[from + 1] \o WriteLines(prefix, lines, from + 1, to)

\* WriteUnifiedDiff: the lines of one opcode
WriteOpCode(a, b, c) ==
    IF c.Tag = "e" THEN WriteLines(" ", a, c.I1, c.I2)
    ELSE (IF c.Tag \in {"r", "d"} THEN WriteLines("-", a, c.I1, c.I2) ELSE <<>>)
         \o (IF c.Tag \in {"r", "i"} THEN WriteLines("+", b, c.J1, c.J2) ELSE <<>>)

RECURSIVE WriteOpCodes(_, _, _)
WriteOpCodes(a, b, g) ==
    IF g = <<>> THEN <<>> ELSE WriteOpCode(a, b, Head(g)) \o WriteOpCodes(a, b, Tail(g))

\* WriteUnifiedDiff: one group, the "@@" line and the lines of its opcodes
WriteGroup(a, b, g) ==
    <<"@@ -">> \o FormatRangeUnified(g[1].I1, g[Len(g)].I2)
    \o <<" +">> \o FormatRangeUnified(g[1].J1, g[Len(g)].J2)
    \o <<" @@", NL>> \o WriteOpCodes(a, b, g)

RECURSIVE WriteGroups(_, _, _)
WriteGroups(a, b, groups) ==
    IF groups = <<>> THEN <<>>
    ELSE WriteGroup(a, b, Head(groups)) \o WriteGroups(a, b, Tail(groups))

\* GetUnifiedDiffString / WriteUnifiedDiff: the two file lines go before
\* the first group, so nothing at all is written when there is no group
GetUnifiedDiffString(diff) ==
    LET groups == GetGroupedOpCodes(diff.A, diff.B, diff.Context)
    IN  IF groups = <<>> THEN <<>>
        ELSE <<"--- ">> \o diff.FromFile \o <<NL, "+++ ">> \o diff.ToFile \o <<NL>>
             \o WriteGroups(diff.A, diff.B, groups)

generatePatch(filePath, original, updated) ==
    GetUnifiedDiffString([A |-> Lines(original),
                          B |-> Lines(updated),
                          FromFile |-> <<"a/", Base(filePath)>>,
                          ToFile |-> <<"b/", Base(filePath)>>,
                          Context |-> Context])

----------------------------------------------------------------------------
(* Driver of generatePatch: the two documents grow token by token, on one  *)
(* side or on both; once, a run of unchanged lines long enough to part two *)
(* hunks may be put into both.                                             *)

\* number of tokens added to the two documents
MaxEdits == 4

PatchTokens == {"p", NL}

\* filepath.Join(pkgPath, "_dev", "build", "docs", "readme.md")
TargetPath(pkgPath) == pkgPath \o <<"_dev", "build", "docs", "readme.md">>

RECURSIVE Repeat(_, _)
Repeat(s, n) == IF n = 0 THEN <<>> ELSE s \o Repeat(s, n - 1)

InitPatch ==
    /\ pc = "build"
    /\ built = 0
    /\ content = <<>>
    /\ dataStreams = <<>>
    /\ result = <<>>
    /\ readmeContent = <<>>
    /\ updatedContent = <<>>
    /\ patch = <<>>
    /\ NoRun

AddToBoth ==
    /\ pc = "build"
    /\ built < MaxEdits
    /\ \E t \in PatchTokens :
         /\ readmeContent' = Append(readmeContent, t)
         /\ updatedContent' = Append(updatedContent, t)
    /\ built' = built + 1
    /\ UNCHANGED <<pc, dataStreams, patch, rewriteVars, runVars>>

AddToOriginal ==
    /\ pc = "build"
    /\ built < MaxEdits
    /\ \E t \in PatchTokens : readmeContent' = Append(readmeContent, t)
    /\ built' = built + 1
    /\ UNCHANGED <<pc, dataStreams, updatedContent, patch, rewriteVars, runVars>>

AddToUpdated ==
    /\ pc = "build"
    /\ built < MaxEdits
    /\ \E t \in PatchTokens : updatedContent' = Append(updatedContent, t)
    /\ built' = built + 1
    /\ UNCHANGED <<pc, dataStreams, readmeContent, patch, rewriteVars, runVars>>

AddUnchangedRun ==
    /\ pc = "build"
    /\ \A i \in 1..Len(readmeContent) : readmeContent[i] # "c"
    /\ readmeContent' = readmeContent \o Repeat(<<NL, "c">>, 2 * Context + 1) \o <<NL>>
    /\ updatedContent' = updatedContent \o Repeat(<<NL, "c">>, 2 * Context + 1) \o <<NL>>
    /\ UNCHANGED <<pc, built, dataStreams, patch, rewriteVars, runVars>>

Patch ==
    /\ pc = "build"
    /\ \E pkgPath \in {<<".">>, <<"pkg", "ti_abusech">>} :
         patch' = generatePatch(TargetPath(pkgPath), readmeContent, updatedContent)
    /\ pc' = "patched"
    /\ UNCHANGED <<built, dataStreams, readmeContent, updatedContent, rewriteVars, runVars>>

NextPatch == AddToBoth \/ AddToOriginal \/ AddToUpdated \/ AddUnchangedRun \/ Patch

SpecPatch == InitPatch /\ [][NextPatch]_vars

----------------------------------------------------------------------------
(* The program: main and the steps of processPackage.  The package path is *)
(* the -path flag; the files under it are the state.                       *)

\* flag.StringVar(&packagePath, "path", ".", ...)
PkgPath == <<".">>

StepOrder ==
    <<"seed-target", "fetch-template", "read-target", "external-rewrite",
      "discover-entities", "rewrite-placeholders", "generate-patch", "persist">>

GenericFields == <<"{{", "fields", SP, QUOTE, GenericName, QUOTE, "}}">>
GenericEvent == <<"{{", "event", SP, QUOTE, GenericName, QUOTE, "}}">>

\* Contents of docs/README.md and of an existing _dev/build/docs/readme.md
SourceDocs == { <<"# Title", NL, "body">>, <<"x">> \o GenericFields }
TargetDocs == { <<"# Old", NL, "body">>, <<"# Template", NL>> \o GenericFields }

\* What the template URL serves
Templates == { <<"# Template", NL>> \o GenericFields }

\* What the model may answer when it answers: the template as it is, the
\* document as it is, or a document with the two reference sections
Candidates(readme, tmpl) ==
    { tmpl, readme,
      <<"x", NL, HeaderFields, NL>> \o GenericFields
          \o <<NL, HeaderEvent, NL>> \o GenericEvent \o <<NL, "x">>,
      <<HeaderEvent, NL>> \o GenericEvent }

Dir(name) == [name |-> name, isDir |-> TRUE]
File(name) == [name |-> name, isDir |-> FALSE]

\* <pkgPath>/data_stream: not there, there but not to be listed, or listed
DataStreamDirs ==
    { [state |-> "absent", entries |-> <<>>],
      [state |-> "unlistable", entries |-> <<>>] }
    \cup { [state |-> "listed", entries |-> l] :
             l \in { <<>>, <<File("notes.txt")>>, <<Dir("a")>>,
                     <<Dir("a"), File("notes.txt"), Dir("b")>>,
                     <<Dir("b"), Dir("a")>> } }

\* The names of all the entries, plain files among them.
DirNames_allEntries(entries) == [i \in 1..Len(entries) |-> entries[i].name]

\* lines 114-119: the names of the entries that are directories
RECURSIVE DirNames(_)
DirNames(entries) ==
    IF entries = <<>> THEN <<>>
    ELSE (IF Head(entries).isDir THEN <<Head(entries).name>> ELSE <<>>)
         \o DirNames(Tail(entries))

findDataStreams(dir) ==
    IF dir.state = "absent" THEN [streams |-> <<>>, err |-> ""]
    ELSE IF dir.state = "unlistable"
         THEN [streams |-> <<>>, err |-> "failed to read data_stream directory"]
         ELSE [streams |-> DirNames(dir.entries), err |-> ""]

Init ==
    /\ pc = "main"
    /\ built = 0
    /\ content = <<>>
    /\ result = <<>>
    /\ dataStreams = <<>>
    /\ readmeContent = <<>>
    /\ updatedContent = <<>>
    /\ patch = <<>>
    /\ args \in SUBSET {"-api-key", "-dry-run"}
    /\ env \in SUBSET {"GOOGLE_API_KEY"}
    /\ targetFile \in {<<>>} \cup { <<d>> : d \in TargetDocs }
    /\ targetDir \in BOOLEAN
    /\ targetFile # <<>> => targetDir
    /\ sourceFile \in {<<>>} \cup { <<d>> : d \in SourceDocs }
    /\ dataStreamDir \in DataStreamDirs
    /\ template = <<>>
    /\ generated = <<>>
    /\ ret = [patch |-> <<>>, err |-> ""]
    /\ exitCode = -1
    /\ steps = <<>>
    /\ seeded = {}

\* main, lines 77-84: flag.Parse ends the program with status 2 on a flag
\* that is not defined (-api-key, -path and -verbose are); without a key
\* log.Fatal ends it with status 1.
ParseFlags ==
    /\ pc = "main"
    /\ IF "-dry-run" \in args
       THEN pc' = "exit" /\ exitCode' = 2
       ELSE IF "-api-key" \notin args /\ "GOOGLE_API_KEY" \notin env
            THEN pc' = "exit" /\ exitCode' = 1
            ELSE pc' = "seed-target" /\ exitCode' = exitCode
    /\ UNCHANGED <<built, dataStreams, readmeContent, updatedContent, patch, rewriteVars,
                   args, env, targetDir, targetFile, sourceFile, dataStreamDir, template,
                   generated, ret, steps, seeded>>

\* return patch, err: the patch made so far goes back with the error.
ReturnError_withPatch(msg) ==
    /\ pc' = "failed"
    /\ ret' = [patch |-> patch, err |-> msg]

\* return "", fmt.Errorf(...)
ReturnError(msg) ==
    /\ pc' = "failed"
    /\ ret' = [patch |-> <<>>, err |-> msg]

\* lines 206-226
SeedTarget ==
    /\ pc = "seed-target"
    /\ steps' = Append(steps, "seed-target")
    /\ IF targetFile # <<>>
       THEN /\ pc' = "fetch-template"
            /\ UNCHANGED <<targetDir, targetFile, ret, seeded>>
       ELSE \/ /\ ReturnError("failed to create directory")
               /\ ~targetDir
               /\ UNCHANGED <<targetDir, targetFile, seeded>>
            \/ /\ sourceFile = <<>>
               /\ ReturnError("source README.md not found")
               /\ targetDir' = TRUE
               /\ seeded' = IF targetDir THEN {} ELSE {"dir"}
               /\ UNCHANGED targetFile
            \/ /\ sourceFile # <<>>
               /\ ReturnError("failed to copy README.md")
               /\ targetDir' = TRUE
               /\ seeded' = IF targetDir THEN {} ELSE {"dir"}
               /\ \E n \in 0..Len(sourceFile[1]) :
                     targetFile' \in {<<>>, <<SubSeq(sourceFile[1], 1, n)>>}
            \/ /\ sourceFile # <<>>
               /\ pc' = "fetch-template"
               /\ targetDir' = TRUE
               /\ targetFile' = sourceFile
               /\ seeded' = IF targetDir THEN {"file"} ELSE {"dir", "file"}
               /\ UNCHANGED ret
    /\ UNCHANGED <<built, dataStreams, readmeContent, updatedContent, patch, rewriteVars,
                   args, env, sourceFile, dataStreamDir, template, generated, exitCode>>

\* The readme that was there is removed when the template cannot be had.
FetchTemplate_rollback ==
    /\ pc = "fetch-template"
    /\ steps' = Append(steps, "fetch-template")
    /\ \/ /\ ReturnError("failed to fetch template")
          /\ targetFile' = <<>>
          /\ UNCHANGED template
       \/ /\ template' \in Templates
          /\ pc' = "read-target"
          /\ UNCHANGED <<ret, targetFile>>
    /\ UNCHANGED <<built, dataStreams, readmeContent, updatedContent, patch, rewriteVars,
                   args, env, targetDir, sourceFile, dataStreamDir,
                   generated, exitCode, seeded>>

\* lines 228-232, fetchTemplate
FetchTemplate ==
    /\ pc = "fetch-template"
    /\ steps' = Append(steps, "fetch-template")
    /\ \/ /\ ReturnError("failed to fetch template")
          /\ UNCHANGED template
       \/ /\ template' \in Templates
          /\ pc' = "read-target"
          /\ UNCHANGED ret
    /\ UNCHANGED <<built, dataStreams, readmeContent, updatedContent, patch, rewriteVars,
                   args, env, targetDir, targetFile, sourceFile, dataStreamDir,
                   generated, exitCode, seeded>>

\* lines 234-238
ReadTarget ==
    /\ pc = "read-target"
    /\ steps' = Append(steps, "read-target")
    /\ \/ /\ ReturnError("failed to read readme")
          /\ UNCHANGED readmeContent
       \/ /\ targetFile # <<>>
          /\ readmeContent' = targetFile[1]
          /\ pc' = "external-rewrite"
          /\ UNCHANGED ret
    /\ UNCHANGED <<built, dataStreams, updatedContent, patch, rewriteVars,
                   args, env, targetDir, targetFile, sourceFile, dataStreamDir, template,
                   generated, exitCode, seeded>>

\* lines 240-244, generateUpdatedReadme
ExternalRewrite ==
    /\ pc = "external-rewrite"
    /\ steps' = Append(steps, "external-rewrite")
    /\ \/ /\ ReturnError("failed to generate updated readme")
          /\ UNCHANGED <<updatedContent, generated>>
       \/ /\ updatedContent' \in Candidates(readmeContent, template)
          /\ generated' = updatedContent'
          /\ pc' = "discover-entities"
          /\ UNCHANGED ret
    /\ UNCHANGED <<built, dataStreams, readmeContent, patch, rewriteVars,
                   args, env, targetDir, targetFile, sourceFile, dataStreamDir, template,
                   exitCode, seeded>>

\* lines 246-250
DiscoverEntities ==
    /\ pc = "discover-entities"
    /\ steps' = Append(steps, "discover-entities")
    /\ LET found == findDataStreams(dataStreamDir)
       IN  IF found.err # ""
           THEN /\ ReturnError("failed to find data streams")
                /\ UNCHANGED dataStreams
           ELSE /\ dataStreams' = found.streams
                /\ pc' = "rewrite-placeholders"
                /\ UNCHANGED ret
    /\ UNCHANGED <<built, readmeContent, updatedContent, patch, rewriteVars,
                   args, env, targetDir, targetFile, sourceFile, dataStreamDir, template,
                   generated, exitCode, seeded>>

\* lines 252-253
RewritePlaceholders ==
    /\ pc = "rewrite-placeholders"
    /\ steps' = Append(steps, "rewrite-placeholders")
    /\ updatedContent' = applyDataStreamPlaceholders(updatedContent, dataStreams)
    /\ pc' = "generate-patch"
    /\ UNCHANGED <<built, dataStreams, readmeContent, patch, rewriteVars,
                   args, env, targetDir, targetFile, sourceFile, dataStreamDir, template,
                   generated, ret, exitCode, seeded>>

\* The patch from the updated text to the one that was read.
GeneratePatch_swapped ==
    /\ pc = "generate-patch"
    /\ steps' = Append(steps, "generate-patch")
    /\ patch' = generatePatch(TargetPath(PkgPath), updatedContent, readmeContent)
    /\ pc' = "persist"
    /\ UNCHANGED <<built, dataStreams, readmeContent, updatedContent, rewriteVars,
                   args, env, targetDir, targetFile, sourceFile, dataStreamDir, template,
                   generated, ret, exitCode, seeded>>

\* lines 255-259; GetUnifiedDiffString writes into a buffer in memory and
\* has no error to return
GeneratePatch ==
    /\ pc = "generate-patch"
    /\ steps' = Append(steps, "generate-patch")
    /\ patch' = generatePatch(TargetPath(PkgPath), readmeContent, updatedContent)
    /\ pc' = "persist"
    /\ UNCHANGED <<built, dataStreams, readmeContent, updatedContent, rewriteVars,
                   args, env, targetDir, targetFile, sourceFile, dataStreamDir, template,
                   generated, ret, exitCode, seeded>>

\* lines 261-269: os.WriteFile opens the file with O_TRUNC, writes and
\* closes; when it fails the file is as it was (it could not be opened) or
\* holds the first n tokens of the new text (it was cut, and the write fell
\* short or the close failed)
Persist ==
    /\ pc = "persist"
    /\ steps' = Append(steps, "persist")
    /\ \/ /\ ReturnError("failed to write updated readme")
          /\ \E n \in 0..Len(updatedContent) :
                targetFile' \in {targetFile, <<SubSeq(updatedContent, 1, n)>>}
       \/ /\ targetFile' = <<updatedContent>>
          /\ ret' = [patch |-> patch, err |-> ""]
          /\ pc' = "returned"
    /\ UNCHANGED <<built, dataStreams, readmeContent, updatedContent, patch, rewriteVars,
                   args, env, targetDir, sourceFile, dataStreamDir, template,
                   generated, exitCode, seeded>>

\* main, lines 87-93: log.Fatalf on an error, else the patch is printed
Finish ==
    /\ pc \in {"failed", "returned"}
    /\ exitCode' = IF ret.err # "" THEN 1 ELSE 0
    /\ pc' = "exit"
    /\ UNCHANGED <<built, dataStreams, readmeContent, updatedContent, patch, rewriteVars,
                   args, env, targetDir, targetFile, sourceFile, dataStreamDir, template,
                   generated, ret, steps, seeded>>

Next ==
    \/ ParseFlags
    \/ SeedTarget
    \/ FetchTemplate
    \/ ReadTarget
    \/ ExternalRewrite
    \/ DiscoverEntities
    \/ RewritePlaceholders
    \/ GeneratePatch
    \/ Persist
    \/ Finish

Spec == Init /\ [][Next]_vars

----------------------------------------------------------------------------
(* Properties of applyDataStreamPlaceholders, under SpecRewrite *)

Count(s, t) == Cardinality({ i \in 1..Len(s) : s[i] = t })
IndexOf(s, t) == CHOOSE i \in 1..Len(s) : s[i] = t /\ \A j \in 1..(i-1) : s[j] # t

\* The generic placeholder of either kind starts at position i of s.
GenericAt(s, i) == MatchAt(s, "fields", i) > 0 \/ MatchAt(s, "event", i) > 0
HasGeneric(s) == \E i \in 1..Len(s) : GenericAt(s, i)
KindAt(s, i) == IF MatchAt(s, "fields", i) > 0 THEN "fields" ELSE "event"

\* What the single-stream contract asks for: the document read once from
\* left to right, every generic placeholder of either kind exchanged for
\* the one naming e, every other token kept.
RECURSIVE Qualified(_, _, _)
Qualified(s, e, i) ==
    IF i > Len(s) THEN <<>>
    ELSE IF GenericAt(s, i)
         THEN <<"{{", KindAt(s, i), SP, QUOTE, e, QUOTE, "}}">>
              \o Qualified(s, e, i + MatchAt(s, KindAt(s, i), i))
         ELSE <<s[i]>> \o Qualified(s, e, i + 1)

\* C1 as claimed: for one data stream e (an identifier, as the data model
\* has it) every generic fields and event placeholder is exchanged one for
\* one for the placeholder naming e, the other text stays as it is and in
\* its order, and no generic placeholder is left in the output.
C1_SingleStreamNoGenericLeft ==
    (pc = "rewritten" /\ Len(dataStreams) = 1 /\ IsIdentifier(dataStreams[1]))
        => /\ result = Qualified(content, dataStreams[1], 1)
           /\ ~HasGeneric(result)

\* C1 as amended: the same, but the output is free of generic placeholders
\* only when e is not the generic name data_stream_name itself, for which
\* the placeholder naming e is the generic placeholder.
C1_SingleStreamQualified ==
    (pc = "rewritten" /\ Len(dataStreams) = 1 /\ IsIdentifier(dataStreams[1]))
        => /\ result = Qualified(content, dataStreams[1], 1)
           /\ (dataStreams[1] # GenericName => ~HasGeneric(result))

C1_Witness ==
    /\ pc = "rewritten"
    /\ dataStreams = <<"a">>
    /\ \E i, j \in 1..Len(content) :
         /\ MatchAt(content, "fields", i) > 0
         /\ MatchAt(content, "event", j) > 0
    /\ Count(content, "x") > 0
    /\ result # content

\* The sub-block of one data stream: its heading, then its placeholder.
Block(kind, e) ==
    <<"#### ", e, NL, NL, "{{", kind, SP, QUOTE, e, QUOTE, "}}", NL, NL>>

\* From position i on, s holds the header, a blank line, and then the
\* sub-blocks of the streams in their order, one after the other.
BlocksUnder(s, i, header, kind, streams) ==
    LET n == Len(Block(kind, "a"))
    IN  /\ i + 2 + n * Len(streams) <= Len(s)
        /\ SubSeq(s, i, i + 2) = <<header, NL, NL>>
        /\ \A k \in 1..Len(streams) :
             SubSeq(s, i + 3 + n * (k - 1), i + 2 + n * k) = Block(kind, streams[k])

HeadersOnceInOrder(s) ==
    /\ Count(s, HeaderFields) = 1
    /\ Count(s, HeaderEvent) = 1
    /\ IndexOf(s, HeaderFields) < IndexOf(s, HeaderEvent)

\* C2: for two or more data streams and a document holding "### ECS field
\* Reference" once and, later, "### Sample Event" once, the output has right
\* under the first header one fields sub-block per data stream, in the
\* order of the list, right under the second header one event sub-block per
\* data stream, in that order, and no other sub-block.
C2_SubBlocksPerStream ==
    (pc = "rewritten" /\ Len(dataStreams) >= 2 /\ HeadersOnceInOrder(content))
        => /\ HeadersOnceInOrder(result)
           /\ BlocksUnder(result, IndexOf(result, HeaderFields), HeaderFields,
                          "fields", dataStreams)
           /\ IndexOf(result, HeaderEvent)
                = IndexOf(result, HeaderFields) + 3
                    + Len(Block("fields", "a")) * Len(dataStreams)
           /\ BlocksUnder(result, IndexOf(result, HeaderEvent), HeaderEvent,
                          "event", dataStreams)
           /\ Count(result, "#### ") = 2 * Len(dataStreams)

C2_Witness ==
    /\ pc = "rewritten"
    /\ dataStreams = <<"b", "a">>
    /\ HeadersOnceInOrder(content)
    /\ HasGeneric(content)
    /\ content[1] = "x"

\* C3: with no data stream the document comes back as it was.
C3_NoStreamsIdentity ==
    (pc = "rewritten" /\ Len(dataStreams) = 0) => result = content

C3_Witness ==
    /\ pc = "rewritten"
    /\ dataStreams = <<>>
    /\ HasGeneric(content)
    /\ Count(content, HeaderFields) = 1
    /\ result = content

\* C4: for two or more data streams and a document that neither header
\* cuts in two (each is there not at all or more than once), the output is
\* the one the first data stream alone gives; the others have no effect.
C4_FallbackFirstStream ==
    (/\ pc = "rewritten"
     /\ Len(dataStreams) >= 2
     /\ Count(content, HeaderFields) # 1
     /\ Count(content, HeaderEvent) # 1)
        => result = applyDataStreamPlaceholders(content, <<dataStreams[1]>>)

C4_Witness ==
    /\ pc = "rewritten"
    /\ dataStreams = <<"a", "b">>
    /\ Count(content, HeaderFields) = 2
    /\ Count(content, HeaderEvent) = 0
    /\ HasGeneric(content)
    /\ result # content

----------------------------------------------------------------------------
(* Properties of generatePatch, under SpecPatch *)

\* The number a token is the decimal form of, -1 when it is of none up to max.
Num(tok, max) ==
    IF \E n \in 0..max : ToString(n) = tok
    THEN CHOOSE n \in 0..max : ToString(n) = tok
    ELSE -1

\* The lines of a patch text; the text ends with a newline when every line
\* of it is a line of its own, and what follows the last newline is no line.
PatchLines(text) ==
    LET pl == Split(text, NL)
    IN  IF pl[Len(pl)] = <<>> THEN SubSeq(pl, 1, Len(pl) - 1) ELSE pl

\* A range "start" or "start,count" at position i of a "@@" line
RangeAt(l, i, max) ==
    IF i + 1 <= Len(l) /\ l[i + 1] = ","
    THEN [start |-> Num(l[i], max), count |-> Num(l[i + 2], max), next |-> i + 3]
    ELSE [start |-> Num(l[i], max), count |-> 1, next |-> i + 1]

Failed == [ok |-> FALSE, lines |-> <<>>]

\* A patch applied as text, the way patch(1) and git apply read a unified
\* diff: pl are the lines of the patch and k the line being read, a the
\* lines of the file of which pos are done, out the lines put out so far;
\* remOld and remNew are the lines the hunk being read still has to take
\* from the file and to put out, by its "@@" line.
RECURSIVE ApplyFrom(_, _, _, _, _, _, _)
ApplyFrom(pl, k, a, pos, out, remOld, remNew) ==
    IF k > Len(pl)
    THEN IF remOld = 0 /\ remNew = 0
         THEN [ok |-> TRUE, lines |-> out \o SubSeq(a, pos + 1, Len(a))]
         ELSE Failed
    ELSE LET l == pl[k]
         IN  IF remOld = 0 /\ remNew = 0
             THEN IF Len(l) >= 5 /\ l[1] = "@@ -"
                  THEN LET max == Len(a) + Len(pl)
                           old == RangeAt(l, 2, max)
                           new == IF old.next < Len(l) /\ l[old.next] = " +"
                                  THEN RangeAt(l, old.next + 1, max)
                                  ELSE [start |-> -1, count |-> -1, next |-> 0]
                           first == IF old.count = 0 THEN old.start ELSE old.start - 1
                       IN  IF /\ old.start >= 0 /\ old.count >= 0
                              /\ new.start >= 0 /\ new.count >= 0
                              /\ old.count + new.count > 0
                              /\ first >= pos /\ first + old.count <= Len(a)
                              /\ new.next = Len(l) /\ l[new.next] = " @@"
                           THEN ApplyFrom(pl, k + 1, a, first, out \o SubSeq(a, pos + 1, first),
                                          old.count, new.count)
                           ELSE Failed
                  ELSE Failed
             ELSE IF l = <<>> THEN Failed
             ELSE IF l[1] = " " /\ remOld > 0 /\ remNew > 0 /\ a[pos + 1] = Tail(l)
                  THEN ApplyFrom(pl, k + 1, a, pos + 1, Append(out, Tail(l)), remOld - 1, remNew - 1)
             ELSE IF l[1] = "-" /\ remOld > 0 /\ a[pos + 1] = Tail(l)
                  THEN ApplyFrom(pl, k + 1, a, pos + 1, out, remOld - 1, remNew)
             ELSE IF l[1] = "+" /\ remNew > 0
                  THEN ApplyFrom(pl, k + 1, a, pos, Append(out, Tail(l)), remOld, remNew - 1)
             ELSE Failed

\* The empty patch changes nothing; any other starts with the two file lines.
ApplyPatch(text, a) ==
    IF text = <<>> THEN [ok |-> TRUE, lines |-> a]
    ELSE LET pl == PatchLines(text)
         IN  IF /\ Len(pl) >= 3
                /\ pl[1] # <<>> /\ pl[1][1] = "--- "
                /\ pl[2] # <<>> /\ pl[2][1] = "+++ "
             THEN ApplyFrom(pl, 3, a, 0, <<>>, 0, 0)
             ELSE Failed

\* C5: the patch generatePatch(path, A, B) returns, applied as text to the
\* lines of A, gives the lines of B: it is a well-formed unified diff, each
\* context, removed and added line of a hunk a line of its own.
C5_PatchRoundTrip ==
    pc = "patched"
        => ApplyPatch(patch, Lines(readmeContent))
             = [ok |-> TRUE, lines |-> Lines(updatedContent)]

\* C6: generatePatch returns the empty text when original and updated are
\* the same document, and a text that is not empty when they differ.
C6_EmptyPatchIffEqual ==
    pc = "patched" => (patch = <<>> <=> readmeContent = updatedContent)

C6_Witness ==
    /\ pc = "patched"
    /\ readmeContent = updatedContent
    /\ Len(Lines(readmeContent)) >= 3
    /\ patch = <<>>

----------------------------------------------------------------------------
(* Properties of processPackage and main, under Spec *)

IsPrefix(s, t) == Len(s) <= Len(t) /\ s = SubSeq(t, 1, Len(s))
Ran(step) == \E i \in 1..Len(steps) : steps[i] = step
HasKey == "-api-key" \in args \/ "GOOGLE_API_KEY" \in env

\* The step whose failure an error of processPackage reports
StepOfError(err) ==
    CASE err \in {"failed to create directory", "source README.md not found",
                  "failed to copy README.md"} -> "seed-target"
      [] err = "failed to fetch template" -> "fetch-template"
      [] err = "failed to read readme" -> "read-target"
      [] err = "failed to generate updated readme" -> "external-rewrite"
      [] err = "failed to find data streams" -> "discover-entities"
      [] err = "failed to generate patch" -> "generate-patch"
      [] err = "failed to write updated readme" -> "persist"
      [] OTHER -> "none"

\* C7: the steps of processPackage run in the order seed-target,
\* fetch-template, read-target, external-rewrite, discover-entities,
\* rewrite-placeholders, generate-patch, persist; when a step fails it is
\* the last one run and the call returns the error with an empty patch; the
\* target file is written by persist only, after every earlier step and
\* the patch generation among them.
C7_StepsInOrderStopAtFailure ==
    /\ IsPrefix(steps, StepOrder)
    /\ ret.err # ""
          => /\ ret.patch = <<>>
             /\ pc \in {"failed", "exit"}
             /\ steps # <<>>
             /\ steps[Len(steps)] = StepOfError(ret.err)
    /\ pc = "failed" => ret.err # ""
    /\ pc \in {"external-rewrite", "discover-entities", "rewrite-placeholders",
               "generate-patch", "persist"}
          => targetFile = <<readmeContent>>
    /\ Ran("persist")
          => /\ steps = StepOrder
             /\ patch = generatePatch(TargetPath(PkgPath), readmeContent, updatedContent)

C7_Witness ==
    /\ pc = "failed"
    /\ ret = [patch |-> <<>>, err |-> "failed to write updated readme"]
    /\ steps = StepOrder
    /\ patch # <<>>

\* Every line of the document is in the patch text as a removed line.
AllLinesRemoved(doc, text) ==
    \A k \in 1..Len(Lines(doc)) :
        \E i \in 1..Len(text) :
            /\ text[i] = "-"
            /\ SubSeq(text, i + 1, i + Len(Lines(doc)[k])) = Lines(doc)[k]

\* C8: after a successful run the patch returned is generatePatch of the
\* target content that was read (the copy of docs/README.md when the
\* target was seeded) and of applyDataStreamPlaceholders of the document
\* the collaborator returned with the data streams found, and the target
\* file holds that same rewritten document.  With no target, the source
\* "# Title\nbody", the template echoed and no data_stream directory, the
\* file is the template and the patch takes away the lines of the source.
C8_ReturnedPatchAndFile ==
    (pc = "returned" \/ (pc = "exit" /\ exitCode = 0))
        => LET final == applyDataStreamPlaceholders(generated, dataStreams)
           IN  /\ dataStreams = findDataStreams(dataStreamDir).streams
               /\ "file" \in seeded => readmeContent = sourceFile[1]
               /\ ret = [patch |-> generatePatch(TargetPath(PkgPath), readmeContent, final),
                         err |-> ""]
               /\ targetFile = <<final>>
               /\ (/\ "file" \in seeded
                   /\ sourceFile = << <<"# Title", NL, "body">> >>
                   /\ generated = template
                   /\ dataStreamDir.state = "absent")
                      => /\ targetFile = <<template>>
                         /\ AllLinesRemoved(sourceFile[1], ret.patch)

C8_Witness ==
    /\ pc = "returned"
    /\ "file" \in seeded
    /\ sourceFile = << <<"# Title", NL, "body">> >>
    /\ generated = template
    /\ dataStreamDir.state = "absent"
    /\ targetFile = <<template>>
    /\ ret.patch # <<>>

\* C9: with -dry-run on the command line (and a key), a run in which no
\* step fails still makes and returns the patch and does not write the
\* target file, which holds what was read from it.
C9_DryRunReturnsPatchWithoutWriting ==
    ("-dry-run" \in args /\ HasKey /\ pc = "exit" /\ ret.err = "")
        => /\ exitCode = 0
           /\ Ran("generate-patch")
           /\ ret.patch = generatePatch(TargetPath(PkgPath), readmeContent, updatedContent)
           /\ targetFile = <<readmeContent>>

\* C10 as claimed: when the first step made the directory or seeded the
\* target file and a later step fails, the directory is there and the
\* seeded file holds the copy of docs/README.md; when target and source
\* are both missing the directory has been made when the error comes back.
C10_SeededStateKept ==
    /\ (ret.err # "" /\ seeded # {} /\ StepOfError(ret.err) # "seed-target")
          => /\ targetDir
             /\ "file" \in seeded => targetFile = sourceFile
    /\ ret.err = "source README.md not found" => targetDir

\* C10 as amended: the same for a failure of every later step but the
\* write; when the write fails the directory and the file are there too, but
\* the file holds the seeded copy or an initial part of the updated text.
C10_SeededStateKeptUntilWrite ==
    /\ (ret.err # "" /\ seeded # {} /\ StepOfError(ret.err) # "seed-target")
          => /\ targetDir
             /\ ("file" \in seeded /\ StepOfError(ret.err) # "persist")
                   => targetFile = sourceFile
             /\ ("file" \in seeded /\ StepOfError(ret.err) = "persist")
                   => /\ targetFile # <<>>
                      /\ \/ targetFile = sourceFile
                         \/ IsPrefix(targetFile[1], updatedContent)
    /\ ret.err = "source README.md not found" => targetDir

C10_Witness ==
    /\ pc = "failed"
    /\ ret.err = "failed to generate updated readme"
    /\ seeded = {"dir", "file"}
    /\ targetDir
    /\ targetFile = sourceFile

\* The directories among the entries of a listing, in its order.
IsDirEntry(entry) == entry.isDir
SubDirs(entries) == SelectSeq(entries, IsDirEntry)

\* C11: findDataStreams returns no data stream and no error when
\* <basePath>/data_stream is not there; when it can be listed it returns
\* the names of the subdirectories right under it, in the order of the
\* listing, plain files left out, and no error; when it is there but
\* cannot be listed it returns an error and no data stream, and
\* processPackage fails with it.
C11_DiscoveryResult ==
    LET found == findDataStreams(dataStreamDir)
        dirs == SubDirs(dataStreamDir.entries)
    IN  /\ dataStreamDir.state = "absent"
            => found = [streams |-> <<>>, err |-> ""]
        /\ dataStreamDir.state = "listed"
            => /\ found.err = ""
               /\ Len(found.streams) = Len(dirs)
               /\ \A i \in 1..Len(dirs) : found.streams[i] = dirs[i].name
               /\ \A i \in 1..Len(dataStreamDir.entries) :
                    ~dataStreamDir.entries[i].isDir =>
                        \A j \in 1..Len(found.streams) :
                            found.streams[j] # dataStreamDir.entries[i].name
        /\ dataStreamDir.state = "unlistable"
            => found.err # "" /\ found.streams = <<>>
        /\ Ran("discover-entities")
            => IF dataStreamDir.state = "unlistable"
               THEN /\ pc \in {"failed", "exit"}
                    /\ ~Ran("rewrite-placeholders")
                    /\ ret.err = "failed to find data streams"
                    /\ dataStreams = <<>>
               ELSE /\ ret.err # "failed to find data streams"
                    /\ dataStreams = found.streams

C11_Witness ==
    /\ Ran("discover-entities")
    /\ dataStreamDir = [state |-> "listed",
                        entries |-> <<Dir("a"), File("notes.txt"), Dir("b")>>]
    /\ dataStreams = <<"a", "b">>
    /\ pc = "rewrite-placeholders"

----------------------------------------------------------------------------
(* Properties of the branches of applyDataStreamPlaceholders, under        *)
(* SpecRewrite                                                             *)

\* The header a document is cut in two around: "### ECS field Reference"
\* when it is there once, else "### Sample Event".
SplitHeader(s) == IF Count(s, HeaderFields) = 1 THEN HeaderFields ELSE HeaderEvent
IsSplit(s) == Count(s, HeaderFields) = 1 \/ Count(s, HeaderEvent) = 1

\* C12: for two or more data streams and a document that one of the two
\* headers cuts in two, the header written after the prefix is the one the
\* document was cut around ("### Sample Event" when "### ECS field
\* Reference" does not cut it in two), and the output holds each header as
\* often as the input: none is lost, none is new.
C12_ReemittedHeaderIsSplitHeader ==
    (pc = "rewritten" /\ Len(dataStreams) >= 2 /\ IsSplit(content))
        => LET h == SplitHeader(content)
               i == IndexOf(content, h)
           IN  /\ Len(result) >= i
               /\ SubSeq(result, 1, i - 1) = SubSeq(content, 1, i - 1)
               /\ result[i] = h
               /\ Count(result, HeaderFields) = Count(content, HeaderFields)
               /\ Count(result, HeaderEvent) = Count(content, HeaderEvent)

RECURSIVE Concat(_)
Concat(ss) == IF ss = <<>> THEN <<>> ELSE Head(ss) \o Concat(Tail(ss))

\* The sub-blocks of the data streams, in their order.
AllBlocks(kind, streams) ==
    Concat([k \in 1..Len(streams) |-> Block(kind, streams[k])])

\* The text before and the text after the header a document is cut around.
Prefix(s) == SubSeq(s, 1, IndexOf(s, SplitHeader(s)) - 1)
Remainder(s) == SubSeq(s, IndexOf(s, SplitHeader(s)) + 1, Len(s))

\* C13: for two or more data streams and a document that a header cuts in
\* two, when "### Sample Event" does not cut the text after that header in
\* two the output is the prefix, the header line the rewrite writes
\* ("### ECS field Reference" and a blank line), one fields sub-block per
\* data stream, and then the text after the header as it was: no event
\* sub-block is written and the generic placeholders of that text stay
\* generic.
C13_RemainderKeptWhenNoSecondSplit ==
    (/\ pc = "rewritten"
     /\ Len(dataStreams) >= 2
     /\ IsSplit(content)
     /\ Count(Remainder(content), HeaderEvent) # 1)
        => /\ result = Prefix(content) \o <<HeaderFields, NL, NL>>
                          \o AllBlocks("fields", dataStreams)
                          \o Remainder(content)
           /\ Count(result, "#### ") = Len(dataStreams)
           /\ Count(result, "event") = Count(content, "event")

C13_Witness ==
    /\ pc = "rewritten"
    /\ dataStreams = <<"a", "b">>
    /\ Count(content, HeaderFields) = 1
    /\ Count(content, HeaderEvent) = 0
    /\ content[1] = "x"
    /\ \E i \in 1..Len(result) :
         /\ i > IndexOf(result, HeaderFields)
         /\ MatchAt(result, "event", i) > 0
    /\ \E i \in 1..Len(result) :
         /\ i > IndexOf(result, HeaderFields)
         /\ MatchAt(result, "fields", i) > 0

\* The length of the longest run of whitespace of s that starts at i.
WsRun(s, i) ==
    CHOOSE n \in 0..Len(s) :
        /\ \A j \in i..(i + n - 1) : j <= Len(s) /\ IsSpace(s[j])
        /\ ~(i + n <= Len(s) /\ IsSpace(s[i + n]))

\* A generic placeholder of the kind read by its structure: the braces,
\* the kind, the quoted generic name, and whitespace wherever it may stand,
\* between the braces and what they hold and between the kind and the name.
\* before, mid and after are the lengths of the three runs of whitespace.
LooseAt(s, kind, i) ==
    LET before == WsRun(s, i + 1)
        mid == WsRun(s, i + 2 + before)
        after == WsRun(s, i + 5 + before + mid)
        n == 6 + before + mid + after
    IN  IF /\ i + n - 1 <= Len(s)
           /\ s[i] = "{{"
           /\ s[i + 1 + before] = kind
           /\ mid >= 1
           /\ s[i + 2 + before + mid] = QUOTE
           /\ s[i + 3 + before + mid] = GenericName
           /\ s[i + 4 + before + mid] = QUOTE
           /\ s[i + n - 1] = "}}"
        THEN [len |-> n, padded |-> before + after > 0, mid |-> mid]
        ELSE [len |-> 0, padded |-> FALSE, mid |-> 0]

LooseKindAt(s, i) == IF LooseAt(s, "fields", i).len > 0 THEN "fields" ELSE "event"
IsLooseAt(s, i) ==
    i <= Len(s) /\ s[i] = "{{"
    /\ (LooseAt(s, "fields", i).len > 0 \/ LooseAt(s, "event", i).len > 0)
IsPaddedAt(s, i) == IsLooseAt(s, i) /\ LooseAt(s, LooseKindAt(s, i), i).padded

\* The document read once from left to right, the generic placeholders
\* exchanged for the one naming e: all of them when padded is TRUE, else
\* those only that have no whitespace next to their braces.
RECURSIVE LooseQualified(_, _, _, _)
LooseQualified(s, e, padded, i) ==
    IF i > Len(s) THEN <<>>
    ELSE IF IsLooseAt(s, i) /\ (padded \/ ~IsPaddedAt(s, i))
         THEN <<"{{", LooseKindAt(s, i), SP, QUOTE, e, QUOTE, "}}">>
              \o LooseQualified(s, e, padded, i + LooseAt(s, LooseKindAt(s, i), i).len)
         ELSE <<s[i]>> \o LooseQualified(s, e, padded, i + 1)

\* C14 as claimed: for one data stream e (an identifier) a generic fields
\* or event placeholder is found by its structure and rewritten whatever
\* its whitespace: several spaces or a tab between the kind and the quoted
\* name, and whitespace between the braces and what they hold, as in
\* {{ fields "data_stream_name" }}.
C14_AnyWhitespaceRewritten ==
    (pc = "rewritten" /\ Len(dataStreams) = 1 /\ IsIdentifier(dataStreams[1]))
        => result = LooseQualified(content, dataStreams[1], TRUE, 1)

\* C14 as amended: a generic placeholder with one or more whitespace
\* characters of any kind between the kind and the quoted name is found and
\* rewritten; one with whitespace between the braces and what they hold is
\* not found and stays in the output as it was.
C14_WhitespaceBeforeNameRewritten ==
    (pc = "rewritten" /\ Len(dataStreams) = 1 /\ IsIdentifier(dataStreams[1]))
        => /\ result = LooseQualified(content, dataStreams[1], FALSE, 1)
           /\ Cardinality({ i \in 1..Len(result) : IsPaddedAt(result, i) })
                = Cardinality({ i \in 1..Len(content) : IsPaddedAt(content, i) })
           /\ dataStreams[1] # GenericName
                => \A i \in 1..Len(result) : IsLooseAt(result, i) => IsPaddedAt(result, i)

C14_Witness ==
    /\ pc = "rewritten"
    /\ dataStreams = <<"a">>
    /\ \E i \in 1..Len(content) :
         /\ IsLooseAt(content, i)
         /\ LooseAt(content, "fields", i) = [len |-> 8, padded |-> FALSE, mid |-> 2]
         /\ content[i + 3] = TAB
    /\ \E i \in 1..Len(content) : IsPaddedAt(content, i)
    /\ \E i \in 1..(Len(result) - 6) :
         SubSeq(result, i, i + 6) = Placeholder("fields", "a")
    /\ \E i \in 1..Len(result) : IsPaddedAt(result, i)

\* C15: for two or more data streams and a document P, "### ECS field
\* Reference", M, "### Sample Event", T with each header there once, the
\* output is P, "### ECS field Reference" and a blank line, the fields
\* sub-blocks, "### Sample Event" and a blank line, the event sub-blocks,
\* and T: P and T are carried over as they were, their generic
\* placeholders not rewritten, and M is not carried over.
C15_PrefixAndTailKeptMiddleDropped ==
    (pc = "rewritten" /\ Len(dataStreams) >= 2 /\ HeadersOnceInOrder(content))
        => LET i1 == IndexOf(content, HeaderFields)
               i2 == IndexOf(content, HeaderEvent)
               P == SubSeq(content, 1, i1 - 1)
               T == SubSeq(content, i2 + 1, Len(content))
           IN  result = P \o <<HeaderFields, NL, NL>>
                          \o AllBlocks("fields", dataStreams)
                          \o <<HeaderEvent, NL, NL>>
                          \o AllBlocks("event", dataStreams)
                          \o T

C15_Witness ==
    /\ pc = "rewritten"
    /\ dataStreams = <<"a", "b">>
    /\ HeadersOnceInOrder(content)
    /\ GenericAt(content, 1)
    /\ GenericAt(result, 1)
    /\ IndexOf(content, HeaderEvent) > IndexOf(content, HeaderFields) + 1
    /\ Count(content, "x") = 1
    /\ Count(result, "x") = 0

\* C16 as claimed: applied to its own output with the same data streams,
\* applyDataStreamPlaceholders returns that output again, for no data
\* stream, for one and for two or more; a second run adds no sub-block.
C16_Idempotent ==
    pc = "rewritten" => applyDataStreamPlaceholders(result, dataStreams) = result

\* C16 as amended: the second application returns the output of the first
\* for no data stream, for one, and for two or more on a document that
\* neither header cuts in two. For two or more data streams on a document
\* that a header cuts in two, the second application adds one more
\* sub-block per data stream when the document held "### ECS field
\* Reference" at most once (the output then holds it once), and none when
\* it held that header several times.
C16_IdempotentUnlessSplit ==
    pc = "rewritten"
        => LET again == applyDataStreamPlaceholders(result, dataStreams)
           IN  IF Len(dataStreams) >= 2 /\ IsSplit(content)
               THEN Count(again, "#### ")
                      = Count(result, "#### ")
                          + (IF Count(content, HeaderFields) <= 1
                             THEN Len(dataStreams) ELSE 0)
               ELSE again = result

C16_Witness ==
    /\ pc = "rewritten"
    /\ dataStreams = <<"a">>
    /\ HeadersOnceInOrder(content)
    /\ HasGeneric(content)
    /\ result # content
    /\ applyDataStreamPlaceholders(result, dataStreams) = result

====
